---- MODULE Spec2Model ----
(***************************************************************************)
(* mod_logfile_domain.c: the domain-keyed cache of open log files, the     *)
(* write / reopen protocol of one entry, and module shutdown.              *)
(*                                                                         *)
(* Threads 1..NumThreads are host threads inside write_domain_log (called  *)
(* by the logger callback); thread SD runs mod_logfile_domain_shutdown.    *)
(* An entry pointer is a positive number and 0 is NULL.  An entry's         *)
(* log_file is "NULL", "open" (a handle that is open) or "stale" (a        *)
(* pointer to a handle that has been closed).  A mutex is the set of its   *)
(* owners ({} when free).  A file is the sequence of the bytes appended to *)
(* it, each byte tagged <<call, offset>> with the call that wrote it.      *)
(*                                                                         *)
(* A character is its code (an unsigned char), a C string is the sequence  *)
(* of its characters without the terminating NUL, and a const char * is a  *)
(* record [null, s]: NULL, or a pointer to the string s.                   *)
(***************************************************************************)
EXTENDS Integers, Sequences, FiniteSets, TLC

MAX_DOMAIN_CACHE_SIZE == 256

\* Bounds of the model.
NumThreads == 2
NumKeys == 2
MaxCalls == 2
MaxFaults == 2
LineLen == 2
MaxSegs == 3

Threads == 1 .. NumThreads
SD == NumThreads + 1

\* Domains the callers pass.  Where the cache starts preloaded they may pass
\* NumKeys + 1 as well, a domain that is cached from the start.
Keys == 1 .. NumKeys
CallKeys == 1 .. (NumKeys + 1)
Preloaded == MAX_DOMAIN_CACHE_SIZE - 1
PreKeys == (NumKeys + 1) .. (NumKeys + MAX_DOMAIN_CACHE_SIZE)

VARIABLES
    domain_hash,    \* the mapping: domain key -> entry pointer
    hash_live,      \* FALSE once switch_core_hash_destroy has set domain_hash to NULL
    cache_entries,  \* globals.cache_entries
    mutex,          \* globals.mutex: set of owners
    entries,        \* entry pointer -> [domain, log_file, log_size, file_lock, lock_live]
    leaked,         \* number of open handles that no entry points to
    file,           \* domain key -> contents of <log_dir>/domain_<key>.log
    th,             \* thread -> locals of write_domain_log / get_domain_entry
    sd,             \* locals of the shutdown thread
    invoked,        \* number of write_domain_log calls made so far
    faults,         \* number of file operations that have failed so far
    hist,           \* history: what the calls did (not read by the program)
    crashed,        \* the process has faulted
    lg              \* thread -> locals of mod_logfile_domain_logger

vars == <<domain_hash, hash_live, cache_entries, mutex, entries, leaked, file,
          th, sd, invoked, faults, hist, crashed, lg>>

\* ------------------------------------------------------------------------
\* Helpers
\* ------------------------------------------------------------------------

Idle == [pc |-> "idle", domain |-> 0, entry |-> 0, len |-> 0, off |-> 0,
         status |-> "SUCCESS", ret |-> "none", call |-> 0, why |-> "none",
         nopen |-> 0, nwrite |-> 0, absent |-> FALSE, first |-> "none",
         reopen |-> "none", retry |-> "none", wrote |-> FALSE, ublock |-> FALSE,
         late |-> FALSE]

EntryPtrs == DOMAIN entries

NewPtr == Cardinality(DOMAIN entries) + 1

\* switch_file_get_size
file_size(d) == Len(file[d])

\* The calls whose bytes are in the file, in the order of their first byte.
LinesOf(d) ==
    LET F[i \in 0 .. Len(file[d])] ==
            IF i = 0 THEN << >>
            ELSE IF file[d][i][2] = 1 THEN Append(F[i - 1], file[d][i][1])
                 ELSE F[i - 1]
    IN  F[Len(file[d])]

\* Lines 127-141: a zeroed entry for domain d with its own mutex.  (opened
\* is history: the size of the file at the most recent open.)
NewEntry(d) ==
    [domain |-> d, log_file |-> "NULL", log_size |-> 0, file_lock |-> {},
     lock_live |-> TRUE, opened |-> 0]

\* The entries whose handle is open.
open_files == {e \in DOMAIN entries : entries[e].log_file = "open"}

\* A thread is between switch_mutex_lock(entry->file_lock) and its unlock.
WritePcs == {"w_write", "w_write2", "w_reopen", "w_retry", "w_account",
             "w_unlock"}

InWrite(t) == th[t].pc \in WritePcs

\* ------------------------------------------------------------------------
\* C strings and the domain extractors (lines 161-213)
\* ------------------------------------------------------------------------

\* sizeof(domainbuf), line 189, and sizeof(entry->domain), line 44.
DOMAINBUF_SIZE == 128
ENTRY_DOMAIN_SIZE == 128

NullStr == [null |-> TRUE, s |-> << >>]
Ptr(s) == [null |-> FALSE, s |-> s]

\* zstr(p): p is NULL or points to the empty string.
zstr(p) == p.null \/ p.s = << >>

\* isspace of <ctype.h> in the C locale.
isspace(c) == c \in (9 .. 13) \cup {32}

\* "domain_name=" and "domain=".
DOMAIN_NAME_EQ == <<100, 111, 109, 97, 105, 110, 95, 110, 97, 109, 101, 61>>
DOMAIN_EQ == <<100, 111, 109, 97, 105, 110, 61>>

\* strstr(h, n): the position in h of the first occurrence of n, 0 if none.
strstr(h, n) ==
    LET occ == {i \in 1 .. (Len(h) - Len(n) + 1) :
                    \A j \in 1 .. Len(n) : h[i + j - 1] = n[j]}
    IN  IF occ = {} THEN 0 ELSE CHOOSE i \in occ : \A k \in occ : i <= k

\* Lines 206-208: the number of characters the loop copies from position p
\* of msg: up to the end, a whitespace character or a full buffer.
copy_len(msg, p) ==
    LET stop == {i \in 0 .. (DOMAINBUF_SIZE - 1) :
                    \/ p + i > Len(msg)
                    \/ isspace(msg[p + i])
                    \/ ~(i + 1 < DOMAINBUF_SIZE)}
    IN  CHOOSE i \in stop : \A k \in stop : i <= k

\* Lines 187-213 (msg is not NULL: the logger passes its buffer).
extract_domain_from_msg(msg) ==
    LET dn == strstr(msg, DOMAIN_NAME_EQ)
        d == strstr(msg, DOMAIN_EQ)
        p == IF dn # 0 THEN dn + Len(DOMAIN_NAME_EQ) ELSE d + Len(DOMAIN_EQ)
        i == copy_len(msg, p)
    IN  IF dn = 0 /\ d = 0 THEN NullStr
        ELSE IF i = 0 THEN NullStr
        ELSE Ptr(SubSeq(msg, p, p + i - 1))

\* extract_domain trying the variable domain before domain_name.
extract_domain_swapped(ch) ==
    IF ~zstr(ch.domain) THEN ch.domain
    ELSE IF ~zstr(ch.domain_name) THEN ch.domain_name
    ELSE NullStr

\* Lines 161-184; channel is not NULL (the logger checks it, line 298) and
\* ch gives the channel variables domain_name and domain.
extract_domain(ch) ==
    IF ~zstr(ch.domain_name) THEN ch.domain_name
    ELSE IF ~zstr(ch.domain) THEN ch.domain
    ELSE NullStr

\* Lines 293-309 of the logger: the domain of event ev.
logger_domain(ev) ==
    LET domain == IF ev.channel THEN extract_domain(ev) ELSE NullStr IN
    IF zstr(domain) /\ ev.rendered # << >>
    THEN LET f == extract_domain_from_msg(ev.rendered) IN
         IF ~f.null THEN f ELSE domain
    ELSE domain

\* An event is what the callback gets: whether node is NULL, whether
\* node->file contains "mod_logfile_domain", whether node->userdata gives a
\* session with a channel, the channel's variables domain_name and domain,
\* and the rendered message ("" when there is no renderer or it fails).
NoEvent == [node |-> FALSE, internal |-> FALSE, channel |-> FALSE,
            domain_name |-> NullStr, domain |-> NullStr, rendered |-> << >>]

\* The logger is not running.
LgIdle == [pc |-> "idle", ev |-> NoEvent, domain |-> NullStr,
           hash_key |-> << >>,
           entry_domain |-> << >>, ret |-> "none"]

\* ------------------------------------------------------------------------
\* Initial states
\* ------------------------------------------------------------------------

InitCommon ==
    /\ hash_live = TRUE
    /\ mutex = {}
    /\ leaked = 0
    /\ th = [t \in Threads |-> Idle]
    /\ sd = [pc |-> "loaded", hi |-> {}, entry |-> 0, inflight |-> FALSE]
    /\ invoked = 0
    /\ faults = 0
    /\ hist = [returned |-> [k \in CallKeys |-> {}],
               inserted |-> [k \in CallKeys |-> {}],
               written |-> [k \in CallKeys |-> {}],
               lockorder |-> [k \in CallKeys |-> << >>],
               nullhash |-> {}]
    /\ crashed = FALSE
    /\ lg = [t \in Threads |-> LgIdle]

\* After mod_logfile_domain_load: an empty cache.
Init ==
    /\ InitCommon
    /\ domain_hash = << >>
    /\ cache_entries = 0
    /\ entries = << >>
    /\ file = [k \in CallKeys |-> << >>]


\* After a run in which n other domains, one less than the cache holds or as
\* many as it holds, were logged once each: their entries are cached with
\* open handles and empty files.
InitPreloaded ==
    /\ InitCommon
    /\ \E n \in {Preloaded, MAX_DOMAIN_CACHE_SIZE} :
         /\ domain_hash = [k \in (NumKeys + 1) .. (NumKeys + n) |-> k - NumKeys]
         /\ cache_entries = n
         /\ entries = [e \in 1 .. n |-> [NewEntry(e + NumKeys)
                                           EXCEPT !.log_file = "open"]]
    /\ file = [k \in CallKeys \cup PreKeys |-> << >>]

\* ------------------------------------------------------------------------
\* write_domain_log, entered from the logger callback
\* ------------------------------------------------------------------------

\* Lines 216-226: the call starts; domain and log_data are non-NULL and the
\* domain is non-empty (the logger calls only under !zstr(domain)).
Enter(t, d, late) ==
    /\ ~crashed
    /\ th[t].pc = "idle"
    /\ invoked < MaxCalls
    /\ invoked' = invoked + 1
    /\ th' = [th EXCEPT ![t] = [Idle EXCEPT !.pc = "gde_lock", !.domain = d,
                                            !.call = invoked + 1,
                                            !.late = late]]
    /\ UNCHANGED <<domain_hash, hash_live, cache_entries, mutex, entries,
                   file, sd, faults, hist, leaked, crashed>>

\* The logger is bound from load until switch_log_unbind_logger.
Call(t, d) ==
    /\ sd.pc = "loaded"
    /\ Enter(t, d, FALSE)
    /\ lg' = lg

\* A write requested after shutdown has returned.
LateCall(t, d) ==
    /\ sd.pc = "done"
    /\ Enter(t, d, TRUE)
    /\ lg' = lg

\* A file operation fails; the model lets at most MaxFaults of them fail.
InjectFault ==
    /\ faults < MaxFaults
    /\ faults' = faults + 1

\* The process faults (h is the history after it): nothing runs any more.
Fault(h) ==
    /\ crashed' = TRUE
    /\ hist' = h
    /\ UNCHANGED <<domain_hash, hash_live, cache_entries, mutex, entries,
                   leaked, file, th, sd, invoked, faults>>

\* History of uses of domain_hash after switch_core_hash_destroy has set it to
\* NULL: by a call made after shutdown returned ("late"), or by a call that
\* was in flight during shutdown ("inflight").
NullUse(t) ==
    IF hash_live THEN {}
    ELSE IF th[t].late THEN {"late"} ELSE {"inflight"}

\* write_domain_log returns status st to the logger.
Return(t, st, reason) ==
    [Idle EXCEPT !.ret = st, !.why = reason]

\* gde_lock without waiting for globals.mutex.
gde_lock_nowait(t) ==
    /\ ~crashed
    /\ th[t].pc = "gde_lock"
    /\ mutex' = mutex \cup {t}
    /\ th' = [th EXCEPT ![t].pc = "gde_find"]
    /\ UNCHANGED <<domain_hash, hash_live, cache_entries, entries, file, sd,
                   invoked, faults, hist, leaked, crashed>>
    /\ lg' = lg

\* Line 108.
gde_lock(t) ==
    /\ ~crashed
    /\ th[t].pc = "gde_lock"
    /\ mutex = {}
    /\ mutex' = {t}
    /\ th' = [th EXCEPT ![t].pc = "gde_find"]
    /\ UNCHANGED <<domain_hash, hash_live, cache_entries, entries, file, sd,
                   invoked, faults, hist, leaked, crashed>>
    /\ lg' = lg

\* CacheFull with > for >=.
CacheFull_gt == cache_entries > MAX_DOMAIN_CACHE_SIZE

\* Line 119.
CacheFull == cache_entries >= MAX_DOMAIN_CACHE_SIZE

\* gde_hit returning the entry with globals.mutex still held.
gde_hit_keep(t) ==
    LET d == th[t].domain IN
    /\ th' = [th EXCEPT ![t].pc = "w_lock", ![t].entry = domain_hash[d],
                        ![t].len = LineLen]
    /\ hist' = [hist EXCEPT !.returned[d] = @ \cup {domain_hash[d]}]
    /\ UNCHANGED <<domain_hash, hash_live, cache_entries, mutex, entries,
                   leaked, file, sd, invoked, faults, crashed>>

\* Lines 111-116: the domain is cached; unlock and return its entry.
gde_hit(t) ==
    LET d == th[t].domain IN
    /\ mutex' = mutex \ {t}
    /\ th' = [th EXCEPT ![t].pc = "w_lock", ![t].entry = domain_hash[d],
                        ![t].len = LineLen]
    /\ hist' = [hist EXCEPT !.returned[d] = @ \cup {domain_hash[d]}]
    /\ UNCHANGED <<domain_hash, hash_live, cache_entries, entries, file, sd,
                   invoked, faults, leaked, crashed>>

\* gde_full evicting a cached entry to admit the new domain.
gde_full_evict(t) ==
    LET k == CHOOSE k \in DOMAIN domain_hash : TRUE IN
    /\ domain_hash' = [x \in DOMAIN domain_hash \ {k} |-> domain_hash[x]]
    /\ cache_entries' = cache_entries - 1
    /\ entries' = entries @@ (NewPtr :> NewEntry(th[t].domain))
    /\ th' = [th EXCEPT ![t].pc = "gde_open", ![t].entry = NewPtr]
    /\ UNCHANGED <<hash_live, mutex, file, sd, invoked, faults, hist, leaked, crashed>>

\* Lines 119-124: unseen domain and the cache is full; unlock, return NULL,
\* and write_domain_log returns SWITCH_STATUS_FALSE (lines 227-231).
gde_full(t) ==
    /\ mutex' = mutex \ {t}
    /\ th' = [th EXCEPT ![t] = Return(t, "FALSE", "full")]
    /\ hist' = [hist EXCEPT !.nullhash = @ \cup NullUse(t)]
    /\ UNCHANGED <<domain_hash, hash_live, cache_entries, entries, file, sd,
                   invoked, faults, leaked, crashed>>

\* Lines 127-141: unseen domain, room in the cache; allocate the entry.
gde_alloc(t) ==
    /\ entries' = entries @@ (NewPtr :> NewEntry(th[t].domain))
    /\ th' = [th EXCEPT ![t].pc = "gde_open", ![t].entry = NewPtr]
    /\ hist' = [hist EXCEPT !.nullhash = @ \cup NullUse(t)]
    /\ UNCHANGED <<domain_hash, hash_live, cache_entries, mutex, file, sd,
                   invoked, faults, leaked, crashed>>

\* Lines 111-141, under globals.mutex.  switch_core_hash_find on a destroyed
\* (NULL) hash is undefined: the process faults, or the lookup finds nothing.
gde_find(t) ==
    /\ ~crashed
    /\ th[t].pc = "gde_find"
    /\ \/ /\ ~hash_live
          /\ Fault([hist EXCEPT !.nullhash = @ \cup NullUse(t)])
       \/ /\ hash_live /\ th[t].domain \in DOMAIN domain_hash
          /\ gde_hit(t)
       \/ /\ ~(hash_live /\ th[t].domain \in DOMAIN domain_hash)
          /\ IF CacheFull THEN gde_full(t) ELSE gde_alloc(t)
    /\ lg' = lg

\* Lines 73-97: switch_file_open succeeded on entry e of the entry table E:
\* the handle and the file's size are stored in the entry.  A handle that was
\* open in the entry stays open with nothing pointing to it.
open_domain_logfile(e, E) ==
    /\ entries' = [E EXCEPT ![e].log_file = "open",
                            ![e].log_size = file_size(E[e].domain),
                            ![e].opened = file_size(E[e].domain)]
    /\ leaked' = IF E[e].log_file = "open" THEN leaked + 1 ELSE leaked

\* Line 150: switch_core_hash_insert_destructor.
hash_insert(d, e) ==
    [k \in DOMAIN domain_hash \cup {d} |-> IF k = d THEN e ELSE domain_hash[k]]

\* gde_open leaving the entry in the cache when the open fails.
gde_open_insert(t) ==
    /\ ~crashed
    /\ th[t].pc = "gde_open"
    /\ \/ /\ mutex' = mutex \ {t}
          /\ th' = [th EXCEPT ![t] = Return(t, "FALSE", "open")]
          /\ InjectFault
          /\ domain_hash' = hash_insert(th[t].domain, th[t].entry)
          /\ cache_entries' = cache_entries + 1
          /\ UNCHANGED <<entries, leaked>>
       \/ /\ open_domain_logfile(th[t].entry, entries)
          /\ th' = [th EXCEPT ![t].pc = "gde_insert"]
          /\ UNCHANGED <<mutex, faults, domain_hash, cache_entries>>
    /\ UNCHANGED <<hash_live, file, sd, invoked, hist, crashed>>
    /\ lg' = lg

\* Lines 144-147: the open fails or succeeds; on failure unlock and return
\* NULL, so write_domain_log returns SWITCH_STATUS_FALSE.
gde_open(t) ==
    /\ ~crashed
    /\ th[t].pc = "gde_open"
    /\ \/ /\ mutex' = mutex \ {t}
          /\ th' = [th EXCEPT ![t] = Return(t, "FALSE", "open")]
          /\ InjectFault
          /\ UNCHANGED <<entries, leaked>>
       \/ /\ open_domain_logfile(th[t].entry, entries)
          /\ th' = [th EXCEPT ![t].pc = "gde_insert"]
          /\ UNCHANGED <<mutex, faults>>
    /\ UNCHANGED <<domain_hash, hash_live, cache_entries, file, sd, invoked,
                   hist, crashed>>
    /\ lg' = lg

\* Lines 150-157: insert, count, unlock, return the entry.  Inserting into a
\* destroyed (NULL) hash is undefined: the process faults, or nothing is
\* inserted.
gde_insert(t) ==
    LET d == th[t].domain
        e == th[t].entry
    IN
    /\ ~crashed
    /\ th[t].pc = "gde_insert"
    /\ \/ /\ ~hash_live
          /\ Fault([hist EXCEPT !.nullhash = @ \cup NullUse(t)])
       \/ /\ domain_hash' = IF hash_live THEN hash_insert(d, e) ELSE domain_hash
          /\ cache_entries' = cache_entries + 1
          /\ mutex' = mutex \ {t}
          /\ th' = [th EXCEPT ![t].pc = "w_lock", ![t].len = LineLen]
          /\ hist' = [hist EXCEPT !.returned[d] = @ \cup {e},
                                  !.inserted[d] = @ \cup {e},
                                  !.nullhash = @ \cup NullUse(t)]
          /\ UNCHANGED <<hash_live, entries, file, sd,
                         invoked, faults, leaked, crashed>>
    /\ lg' = lg

\* ------------------------------------------------------------------------
\* write_domain_log, lines 233-260: the write section of one entry
\* ------------------------------------------------------------------------

\* w_lock without waiting for the entry's mutex.
w_lock_nowait(t) ==
    LET e == th[t].entry IN
    /\ ~crashed
    /\ th[t].pc = "w_lock"
    /\ entries' = [entries EXCEPT ![e].file_lock = @ \cup {t}]
    /\ th' = [th EXCEPT ![t].pc = "w_write"]
    /\ hist' = [hist EXCEPT !.lockorder[entries[e].domain] =
                                Append(@, th[t].call)]
    /\ UNCHANGED <<domain_hash, hash_live, cache_entries, mutex, file, sd,
                   invoked, faults, leaked, crashed>>
    /\ lg' = lg

\* Line 235.  Locking a mutex that cleanup_domain_entry has destroyed is
\* undefined: the process faults, or the call goes on without owning it.
w_lock(t) ==
    LET e == th[t].entry IN
    /\ ~crashed
    /\ th[t].pc = "w_lock"
    /\ \/ /\ entries[e].lock_live
          /\ entries[e].file_lock = {}
          /\ entries' = [entries EXCEPT ![e].file_lock = {t}]
          /\ th' = [th EXCEPT ![t].pc = "w_write"]
          /\ hist' = [hist EXCEPT !.lockorder[entries[e].domain] =
                                      Append(@, th[t].call)]
          /\ UNCHANGED <<leaked, crashed>>
       \/ /\ ~entries[e].lock_live
          /\ entries' = entries
          /\ th' = [th EXCEPT ![t].pc = "w_write", ![t].ublock = TRUE]
          /\ hist' = [hist EXCEPT !.lockorder[entries[e].domain] =
                                      Append(@, th[t].call)]
          /\ UNCHANGED <<leaked, crashed>>
       \/ /\ ~entries[e].lock_live
          /\ crashed' = TRUE
          /\ UNCHANGED <<entries, th, hist, leaked>>
    /\ UNCHANGED <<domain_hash, hash_live, cache_entries, mutex, file, sd,
                   invoked, faults>>
    /\ lg' = lg

\* switch_file_write of the line succeeds: its first byte reaches the file.
\* The rest follows in w_write2, so that a write is not one atomic step.
write_begin(t, outcome) ==
    LET d == entries[th[t].entry].domain IN
    /\ faults' = faults
    /\ file' = [file EXCEPT ![d] = Append(@, <<th[t].call, 1>>)]
    /\ th' = [th EXCEPT ![t] = [outcome EXCEPT !.pc = "w_write2", !.off = 1,
                                               !.len = LineLen,
                                               !.nwrite = @ + 1]]

\* switch_file_write fails: nothing is written and *len is set to 0.
write_fail(t, outcome) ==
    /\ file' = file
    /\ th' = [th EXCEPT ![t] = [outcome EXCEPT !.len = 0, !.nwrite = @ + 1]]

\* Lines 237-238: no handle, or the first write attempt.  A handle that is
\* not open any more (closed by cleanup_domain_entry) cannot be written.
w_write(t) ==
    LET e == th[t].entry IN
    /\ ~crashed
    /\ th[t].pc = "w_write"
    /\ \/ /\ entries[e].log_file = "NULL"
          /\ th' = [th EXCEPT ![t].pc = "w_reopen", ![t].absent = TRUE]
          /\ UNCHANGED <<file, faults>>
       \/ /\ entries[e].log_file = "open"
          /\ write_begin(t, [th[t] EXCEPT !.first = "ok"])
       \/ /\ entries[e].log_file # "NULL"
          /\ IF entries[e].log_file = "open" THEN InjectFault
             ELSE faults' = faults
          /\ write_fail(t, [th[t] EXCEPT !.pc = "w_reopen", !.first = "fail"])
    /\ UNCHANGED <<domain_hash, hash_live, cache_entries, mutex, entries,
                   sd, invoked, hist, leaked, crashed>>
    /\ lg' = lg

\* The rest of a successful switch_file_write: the next byte of the line.
w_write2(t) ==
    LET d == entries[th[t].entry].domain
        n == th[t].off + 1
    IN
    /\ ~crashed
    /\ th[t].pc = "w_write2"
    /\ IF th[t].off >= LineLen
       THEN /\ th' = [th EXCEPT ![t].pc = "w_account", ![t].wrote = TRUE]
            /\ hist' = [hist EXCEPT !.written[d] = @ \cup {th[t].call}]
            /\ file' = file
       ELSE /\ file' = [file EXCEPT ![d] = Append(@, <<th[t].call, n>>)]
            /\ th' = [th EXCEPT ![t].off = n]
            /\ hist' = hist
    /\ UNCHANGED <<domain_hash, hash_live, cache_entries, mutex, entries,
                   sd, invoked, faults, leaked, crashed>>
    /\ lg' = lg

\* Lines 240-243: the entry table after the handle of e, if it has one, is
\* closed and set to NULL.
close_handle(e) == [entries EXCEPT ![e].log_file = "NULL"]

\* Lines 240-251: close the handle if there is one, reopen the file; the
\* open succeeds (len is reset) or fails (status becomes FALSE).
w_reopen(t) ==
    LET e == th[t].entry IN
    /\ ~crashed
    /\ th[t].pc = "w_reopen"
    /\ \/ /\ open_domain_logfile(e, close_handle(e))
          /\ th' = [th EXCEPT ![t].pc = "w_retry", ![t].len = LineLen,
                              ![t].nopen = @ + 1, ![t].reopen = "ok"]
          /\ faults' = faults
       \/ /\ InjectFault
          /\ entries' = close_handle(e)
          /\ leaked' = leaked
          /\ th' = [th EXCEPT ![t].pc = "w_account", ![t].status = "FALSE",
                              ![t].nopen = @ + 1, ![t].reopen = "fail"]
    /\ UNCHANGED <<domain_hash, hash_live, cache_entries, mutex, file, sd,
                   invoked, hist, crashed>>
    /\ lg' = lg

\* w_retry going back to close and reopen when the retried write fails.
w_retry_again(t) ==
    /\ ~crashed
    /\ th[t].pc = "w_retry"
    /\ \/ /\ entries[th[t].entry].log_file = "open"
          /\ write_begin(t, [th[t] EXCEPT !.retry = "ok"])
       \/ /\ IF entries[th[t].entry].log_file = "open" THEN InjectFault
             ELSE faults' = faults
          /\ write_fail(t, [th[t] EXCEPT !.pc = "w_reopen", !.retry = "fail"])
    /\ UNCHANGED <<domain_hash, hash_live, cache_entries, mutex, entries,
                   leaked, sd, invoked, hist, crashed>>
    /\ lg' = lg

\* Line 248: the retried write; its result is not looked at.
w_retry(t) ==
    /\ ~crashed
    /\ th[t].pc = "w_retry"
    /\ \/ /\ entries[th[t].entry].log_file = "open"
          /\ write_begin(t, [th[t] EXCEPT !.retry = "ok"])
       \/ /\ IF entries[th[t].entry].log_file = "open" THEN InjectFault
             ELSE faults' = faults
          /\ write_fail(t, [th[t] EXCEPT !.pc = "w_account", !.retry = "fail"])
    /\ UNCHANGED <<domain_hash, hash_live, cache_entries, mutex, entries,
                   sd, invoked, hist, leaked, crashed>>
    /\ lg' = lg

\* w_account adding the length of the line instead of the written length.
w_account_strlen(t) ==
    LET e == th[t].entry IN
    /\ ~crashed
    /\ th[t].pc = "w_account"
    /\ entries' = IF th[t].status = "SUCCESS"
                  THEN [entries EXCEPT ![e].log_size = @ + LineLen]
                  ELSE entries
    /\ th' = [th EXCEPT ![t].pc = "w_unlock"]
    /\ UNCHANGED <<domain_hash, hash_live, cache_entries, mutex, file, sd,
                   invoked, faults, hist, leaked, crashed>>
    /\ lg' = lg

\* Lines 254-256.
w_account(t) ==
    LET e == th[t].entry IN
    /\ ~crashed
    /\ th[t].pc = "w_account"
    /\ entries' = IF th[t].status = "SUCCESS"
                  THEN [entries EXCEPT ![e].log_size = @ + th[t].len]
                  ELSE entries
    /\ th' = [th EXCEPT ![t].pc = "w_unlock"]
    /\ UNCHANGED <<domain_hash, hash_live, cache_entries, mutex, file, sd,
                   invoked, faults, hist, leaked, crashed>>
    /\ lg' = lg

\* w_unlock returning without unlocking the entry.
w_unlock_keep(t) ==
    /\ ~crashed
    /\ th[t].pc = "w_unlock"
    /\ th' = [th EXCEPT ![t] = Return(t, th[t].status, "written")]
    /\ UNCHANGED <<domain_hash, hash_live, cache_entries, mutex, entries,
                   file, sd, invoked, faults, hist, leaked, crashed>>
    /\ lg' = lg

\* Lines 258-260: unlock the entry and return status.
w_unlock(t) ==
    LET e == th[t].entry IN
    /\ ~crashed
    /\ th[t].pc = "w_unlock"
    /\ entries' = [entries EXCEPT ![e].file_lock = @ \ {t}]
    /\ th' = [th EXCEPT ![t] = Return(t, th[t].status, "written")]
    /\ UNCHANGED <<domain_hash, hash_live, cache_entries, mutex, file, sd,
                   invoked, faults, hist, leaked, crashed>>
    /\ lg' = lg

\* ------------------------------------------------------------------------
\* mod_logfile_domain_shutdown
\* ------------------------------------------------------------------------

\* Lines 424-429: switch_log_unbind_logger; no logger call starts afterwards.
Unbind ==
    /\ ~crashed
    /\ sd.pc = "loaded"
    /\ sd' = [sd EXCEPT !.pc = "ca_lock",
                        !.inflight = \E t \in Threads : th[t].pc # "idle"]
    /\ UNCHANGED <<domain_hash, hash_live, cache_entries, mutex, entries,
                   file, th, invoked, faults, hist, leaked, crashed>>
    /\ lg' = lg

\* Lines 352-354: lock globals.mutex and start the iteration of the hash.
ca_lock ==
    /\ ~crashed
    /\ sd.pc = "ca_lock"
    /\ mutex = {}
    /\ mutex' = {SD}
    /\ sd' = [sd EXCEPT !.pc = "ca_iter", !.hi = DOMAIN domain_hash]
    /\ UNCHANGED <<domain_hash, hash_live, cache_entries, entries, file, th,
                   invoked, faults, hist, leaked, crashed>>
    /\ lg' = lg

\* Lines 354-359 and 368: the next entry of the iteration (in the hash's
\* order, which is any order) is locked; at the end globals.mutex is unlocked.
ca_iter ==
    /\ ~crashed
    /\ sd.pc = "ca_iter"
    /\ IF sd.hi = {}
       THEN /\ mutex' = mutex \ {SD}
            /\ sd' = [sd EXCEPT !.pc = "destroy", !.entry = 0]
            /\ entries' = entries
       ELSE \E k \in sd.hi :
              LET e == domain_hash[k] IN
              /\ entries[e].file_lock = {}
              /\ entries' = [entries EXCEPT ![e].file_lock = {SD}]
              /\ sd' = [sd EXCEPT !.pc = "ca_close", !.entry = e,
                                  !.hi = @ \ {k}]
              /\ mutex' = mutex
    /\ UNCHANGED <<domain_hash, hash_live, cache_entries, file, th, invoked,
                   faults, hist, leaked, crashed>>
    /\ lg' = lg

\* ca_close leaving the entry locked.
ca_close_keep ==
    LET e == sd.entry IN
    /\ ~crashed
    /\ sd.pc = "ca_close"
    /\ entries' = [entries EXCEPT ![e].log_file = "NULL"]
    /\ sd' = [sd EXCEPT !.pc = "ca_iter"]
    /\ UNCHANGED <<domain_hash, hash_live, cache_entries, mutex, file,
                   th, invoked, faults, hist, leaked, crashed>>
    /\ lg' = lg

\* Lines 360-364: close the entry's handle if it has one, unlock the entry.
ca_close ==
    LET e == sd.entry IN
    /\ ~crashed
    /\ sd.pc = "ca_close"
    /\ entries' = [entries EXCEPT ![e].log_file = "NULL",
                                  ![e].file_lock = @ \ {SD}]
    /\ sd' = [sd EXCEPT !.pc = "ca_iter"]
    /\ UNCHANGED <<domain_hash, hash_live, cache_entries, mutex, file,
                   th, invoked, faults, hist, leaked, crashed>>
    /\ lg' = lg

\* Lines 58-69: the destructor of entry e: its mutex is destroyed, then its
\* handle, if it has one, is closed (the pointer is left in the entry).
cleanup_domain_entry(e) ==
    entries' = [entries EXCEPT
                  ![e].lock_live = FALSE,
                  ![e].log_file = IF @ = "NULL" THEN "NULL" ELSE "stale"]

\* hash_destroy returning without destroying the hash.
hash_destroy_forget ==
    /\ ~crashed
    /\ sd.pc = "destroy"
    /\ sd' = [sd EXCEPT !.pc = "done"]
    /\ UNCHANGED <<domain_hash, hash_live, cache_entries, mutex, entries,
                   leaked, file, th, invoked, faults, hist, crashed>>
    /\ lg' = lg

\* Line 435: switch_core_hash_destroy runs the destructor of every entry,
\* one after the other, without globals.mutex, then sets domain_hash to NULL.
hash_destroy ==
    /\ ~crashed
    /\ sd.pc = "destroy"
    /\ IF DOMAIN domain_hash = {}
       THEN /\ hash_live' = FALSE
            /\ sd' = [sd EXCEPT !.pc = "done"]
            /\ UNCHANGED <<domain_hash, entries>>
       ELSE \E k \in DOMAIN domain_hash :
              /\ cleanup_domain_entry(domain_hash[k])
              /\ domain_hash' = [x \in DOMAIN domain_hash \ {k} |-> domain_hash[x]]
              /\ UNCHANGED <<hash_live, sd>>
    /\ UNCHANGED <<cache_entries, mutex, file, th, invoked, faults, hist,
                   leaked, crashed>>
    /\ lg' = lg

\* ------------------------------------------------------------------------
\* mod_logfile_domain_logger (lines 265-342)
\* ------------------------------------------------------------------------

\* Runs of 'x' longer than the buffers that receive them.
LongRun == [i \in 1 .. (DOMAINBUF_SIZE + 2) |-> 120]
Long300 == [i \in 1 .. 300 |-> 120]

\* The pieces rendered messages are made of: the two markers, "a", " ", the
\* control character 0x01 and a long run.
Segments == {DOMAIN_NAME_EQ, DOMAIN_EQ, <<97>>, <<32>>, <<1>>, LongRun}

RECURSIVE Flat(_)
Flat(q) == IF q = << >> THEN << >> ELSE Head(q) \o Flat(Tail(q))

Texts == {Flat(q) : q \in UNION {[1 .. n -> Segments] : n \in 0 .. MaxSegs}}

\* Values of the channel variables: unset, "", a short name, 300 characters.
DomainNameVals == {NullStr, Ptr(<< >>), Ptr(<<110>>), Ptr(Long300)}
DomainVals == {NullStr, Ptr(<< >>), Ptr(<<100>>)}

Events ==
    {NoEvent}
    \cup [node : {TRUE}, internal : BOOLEAN, channel : {FALSE},
          domain_name : {NullStr}, domain : {NullStr}, rendered : Texts]
    \cup [node : {TRUE}, internal : BOOLEAN, channel : {TRUE},
          domain_name : DomainNameVals, domain : DomainVals, rendered : Texts]

\* The domain names of the events that reach the cache; a name's key in the
\* cache is its place in this list.
Names == << <<97>>, <<110>>, <<100>> >>
KeyOf(s) == CHOOSE k \in 1 .. Len(Names) : Names[k] = s

\* Events with and without a channel, with each kind of channel variable and
\* with a text that gives a domain, gives none or is empty.
SmallEvents ==
    {NoEvent, [NoEvent EXCEPT !.node = TRUE, !.internal = TRUE,
                              !.rendered = DOMAIN_EQ \o <<97>>]}
    \cup [node : {TRUE}, internal : {FALSE}, channel : {FALSE},
          domain_name : {NullStr}, domain : {NullStr},
          rendered : {<< >>, DOMAIN_EQ \o <<97>>, DOMAIN_EQ \o <<32>>}]
    \cup [node : {TRUE}, internal : {FALSE}, channel : {TRUE},
          domain_name : {NullStr, Ptr(<< >>), Ptr(<<110>>)},
          domain : {NullStr, Ptr(<<100>>)},
          rendered : {<< >>, DOMAIN_EQ \o <<97>>}]

\* switch_copy_string(dst, src, n): at most n - 1 characters are copied.
switch_copy_string(src, n) ==
    IF Len(src) < n THEN src ELSE SubSeq(src, 1, n - 1)

\* Lines 276-309: the callback starts on event ev; it returns at once for a
\* NULL node and for an event of this module, else it resolves the domain.
logger_resolve(t, ev) ==
    /\ \A u \in Threads : lg[u].pc = "idle"
    /\ lg' = [lg EXCEPT ![t] =
                IF ~ev.node \/ ev.internal
                THEN [LgIdle EXCEPT !.pc = "returned", !.ev = ev,
                                    !.ret = "SUCCESS"]
                ELSE [LgIdle EXCEPT !.pc = "resolved", !.ev = ev,
                                    !.domain = logger_domain(ev)]]
    /\ UNCHANGED <<domain_hash, hash_live, cache_entries, mutex, entries,
                   leaked, file, th, sd, invoked, faults, hist, crashed>>

\* Lines 312-338 and what get_domain_entry makes of the domain it is given:
\* without a domain the callback returns; else the pointer itself is the key
\* of switch_core_hash_find and switch_core_hash_insert_destructor (lines
\* 111, 150) and entry->domain gets a bounded copy (line 130).
logger_write(t) ==
    /\ lg[t].pc = "resolved"
    /\ lg' = [lg EXCEPT ![t] =
                IF zstr(lg[t].domain)
                THEN [@ EXCEPT !.pc = "returned", !.ret = "SUCCESS"]
                ELSE [@ EXCEPT !.pc = "keyed",
                               !.hash_key = lg[t].domain.s,
                               !.entry_domain =
                                   switch_copy_string(lg[t].domain.s,
                                                      ENTRY_DOMAIN_SIZE)]]
    /\ UNCHANGED <<domain_hash, hash_live, cache_entries, mutex, entries,
                   leaked, file, th, sd, invoked, faults, hist, crashed>>

\* logger_return handing the status of write_domain_log to the host.
logger_return_status(t) ==
    /\ lg[t].pc \in {"keyed", "in_write"}
    /\ th[t].pc = "idle"
    /\ lg' = [lg EXCEPT ![t].pc = "returned",
                        ![t].ret = IF lg[t].pc = "in_write" THEN th[t].ret
                                   ELSE "SUCCESS"]
    /\ UNCHANGED <<domain_hash, hash_live, cache_entries, mutex, entries,
                   leaked, file, th, sd, invoked, faults, hist, crashed>>

\* Line 341, after write_domain_log has returned (its status is dropped).
logger_return(t) ==
    /\ lg[t].pc \in {"keyed", "in_write"}
    /\ th[t].pc = "idle"
    /\ lg' = [lg EXCEPT ![t].pc = "returned", ![t].ret = "SUCCESS"]
    /\ UNCHANGED <<domain_hash, hash_live, cache_entries, mutex, entries,
                   leaked, file, th, sd, invoked, faults, hist, crashed>>

\* Lines 276-338: the callback on event ev up to its call of
\* write_domain_log; without a domain it returns at once (line 341).
logger_call(t, ev) ==
    LET domain == logger_domain(ev) IN
    /\ lg[t].pc = "idle"
    /\ IF ~ev.node \/ ev.internal \/ zstr(domain)
       THEN /\ lg' = [lg EXCEPT ![t] = [LgIdle EXCEPT !.pc = "returned",
                                                      !.ev = ev,
                                                      !.ret = "SUCCESS"]]
            /\ UNCHANGED <<domain_hash, hash_live, cache_entries, mutex,
                           entries, leaked, file, th, sd, invoked, faults,
                           hist, crashed>>
       ELSE /\ sd.pc = "loaded"
            /\ Enter(t, KeyOf(domain.s), FALSE)
            /\ lg' = [lg EXCEPT ![t] = [LgIdle EXCEPT !.pc = "in_write",
                                                      !.ev = ev,
                                                      !.domain = domain]]

\* The callback has returned: the thread is free for the next event.
logger_next(t) ==
    /\ lg[t].pc = "returned"
    /\ lg' = [lg EXCEPT ![t] = LgIdle]
    /\ UNCHANGED <<domain_hash, hash_live, cache_entries, mutex, entries,
                   leaked, file, th, sd, invoked, faults, hist, crashed>>

\* ------------------------------------------------------------------------
\* Specifications
\* ------------------------------------------------------------------------

Writer(t) ==
    \/ gde_lock(t) \/ gde_find(t) \/ gde_open(t) \/ gde_insert(t)
    \/ w_lock(t) \/ w_write(t) \/ w_write2(t) \/ w_reopen(t) \/ w_retry(t)
    \/ w_account(t) \/ w_unlock(t)

Shutdown == Unbind \/ ca_lock \/ ca_iter \/ ca_close \/ hash_destroy

\* The module from load to shutdown and after it.
Next ==
    \/ \E t \in Threads, d \in Keys : Call(t, d)
    \/ \E t \in Threads, d \in Keys : LateCall(t, d)
    \/ \E t \in Threads : Writer(t)
    \/ Shutdown

Spec == Init /\ [][Next]_vars

\* The loaded module serving the logger, from an empty cache.
NextRun ==
    \/ \E t \in Threads, d \in Keys : Call(t, d)
    \/ \E t \in Threads : Writer(t)

SpecRun == Init /\ [][NextRun]_vars

\* The loaded module serving the logger, from a cache that is full or one
\* entry short of full.
NextFull ==
    \/ \E t \in Threads, d \in CallKeys : Call(t, d)
    \/ \E t \in Threads : Writer(t)

SpecFull == InitPreloaded /\ [][NextFull]_vars

\* ------------------------------------------------------------------------
\* Properties
\* ------------------------------------------------------------------------

\* A thread holds the entry pointer get_domain_entry returned to it.
HasEntry(t) == th[t].pc \in {"w_lock"} \cup WritePcs

\* C1: singleton per key.  While the module serves the logger, whatever the
\* interleaving of the get_domain_entry calls, at most one entry was ever
\* inserted for a domain, the cache maps a domain to an entry made for that
\* domain, and every call that got an entry for a domain got the cached one.
SingletonPerKey ==
    \A d \in Keys :
        /\ Cardinality(hist.inserted[d]) <= 1
        /\ Cardinality(hist.returned[d]) <= 1
        /\ d \in DOMAIN domain_hash =>
             /\ entries[domain_hash[d]].domain = d
             /\ hist.returned[d] = {domain_hash[d]}
        /\ \A t \in Threads :
             HasEntry(t) /\ th[t].domain = d =>
                 /\ d \in DOMAIN domain_hash
                 /\ th[t].entry = domain_hash[d]

\* Two calls in flight at once for the same domain, one that created the
\* entry and one that found it, hold the same entry.
SingletonPerKeyWitness ==
    \E t1, t2 \in Threads :
        /\ t1 # t2
        /\ HasEntry(t1) /\ HasEntry(t2)
        /\ th[t1].domain = th[t2].domain
        /\ th[t1].entry = th[t2].entry
        /\ hist.inserted[th[t1].domain] = {th[t1].entry}

\* The cache never holds more than MAX_DOMAIN_CACHE_SIZE entries, and the
\* counter is the number of cached entries.
CapacityBound ==
    /\ Cardinality(DOMAIN domain_hash) <= MAX_DOMAIN_CACHE_SIZE
    /\ cache_entries = Cardinality(DOMAIN domain_hash)

\* A step removes or replaces no cached entry.
NoEviction ==
    \A k \in DOMAIN domain_hash :
        /\ k \in DOMAIN domain_hash'
        /\ domain_hash'[k] = domain_hash[k]

\* C2: capacity bound.  From load to shutdown, after any interleaving of
\* get_domain_entry calls, the cache holds at most MAX_DOMAIN_CACHE_SIZE (256)
\* entries, and no step evicts a cached entry to admit another.
CapacityNoEviction == [](CapacityBound) /\ [][NoEviction]_vars

\* A new domain was admitted and filled the cache, and a call for a further
\* unseen domain is at the capacity test.
CapacityWitness ==
    /\ cache_entries = MAX_DOMAIN_CACHE_SIZE
    /\ \E d \in Keys : d \in DOMAIN domain_hash
    /\ \E t \in Threads : th[t].pc = "gde_find"
                          /\ th[t].domain \notin DOMAIN domain_hash

\* Thread t takes a step from the lookup of get_domain_entry.
Looks(t) == th[t].pc = "gde_find" /\ th'[t] # th[t]

\* C3: rejection at capacity leaves the state unchanged.  With 256 domains
\* cached, the lookup of an unseen domain makes write_domain_log return
\* failure and changes neither the mapping, nor the counter, nor any entry
\* (handle, log_size, lock), nor any file; and the lookup of a cached domain
\* still returns that domain's entry.
RejectionAtCapacity ==
    [][\A t \in Threads :
         /\ ( /\ Looks(t)
              /\ Cardinality(DOMAIN domain_hash) = MAX_DOMAIN_CACHE_SIZE
              /\ th[t].domain \notin DOMAIN domain_hash )
            => /\ th'[t].pc = "idle"
               /\ th'[t].ret = "FALSE"
               /\ domain_hash' = domain_hash
               /\ cache_entries' = cache_entries
               /\ entries' = entries
               /\ file' = file
         /\ ( /\ Looks(t)
              /\ th[t].domain \in DOMAIN domain_hash )
            => /\ th'[t].pc = "w_lock"
               /\ th'[t].entry = domain_hash[th[t].domain]
               /\ entries' = entries
               /\ domain_hash' = domain_hash
      ]_vars

\* One call was rejected because the cache is full, and another call holds the
\* lock of a cached entry whose handle is open, about to write.
RejectionWitness ==
    \E t1, t2 \in Threads :
        /\ th[t1].pc = "idle" /\ th[t1].why = "full" /\ th[t1].ret = "FALSE"
        /\ Cardinality(DOMAIN domain_hash) = MAX_DOMAIN_CACHE_SIZE
        /\ th[t2].pc = "w_write"
        /\ domain_hash[th[t2].domain] = th[t2].entry
        /\ entries[th[t2].entry].log_file = "open"

\* No two callers are in the write section of one entry at the same time.
WriteExclusion ==
    \A t1, t2 \in Threads :
        t1 # t2 /\ InWrite(t1) /\ InWrite(t2) => th[t1].entry # th[t2].entry

\* The calls that have begun a write to the file of d and not finished it.
Writing(d) ==
    {th[t].call : t \in {u \in Threads : /\ th[u].pc = "w_write2"
                                         /\ entries[th[u].entry].domain = d}}

\* Every byte of the file of d is preceded by the byte before it of the same
\* line and followed by the next one: the last line may lack its tail only
\* while its writer is still writing it.
WholeLines(d) ==
    \A i \in 1 .. Len(file[d]) :
        LET c == file[d][i][1]
            o == file[d][i][2]
        IN  /\ o > 1 => i > 1 /\ file[d][i - 1] = <<c, o - 1>>
            /\ o < LineLen =>
                 IF i < Len(file[d]) THEN file[d][i + 1] = <<c, o + 1>>
                 ELSE \E t \in Threads : /\ th[t].pc = "w_write2"
                                         /\ th[t].call = c
                                         /\ th[t].off = o

\* The file of d holds one line for each call whose write succeeded or is
\* under way, and nothing else.
OneLinePerWrite(d) ==
    LET L == LinesOf(d) IN
    /\ \A i, j \in 1 .. Len(L) : i # j => L[i] # L[j]
    /\ {L[i] : i \in 1 .. Len(L)} = hist.written[d] \cup Writing(d)

\* C4: no torn writes.  Whatever the interleaving of the callers of one
\* domain, its file holds exactly one complete line per successful write, each
\* the line of one caller, and no two callers are in the write section of the
\* same entry at once.
NoTornWrites ==
    /\ WriteExclusion
    /\ \A d \in Keys : WholeLines(d) /\ OneLinePerWrite(d)

\* Both calls wrote to the same domain and have returned: its file holds
\* their two complete lines.
NoTornWritesWitness ==
    /\ \A t \in Threads : th[t].pc = "idle" /\ th[t].ret = "SUCCESS"
    /\ \E d \in Keys : /\ Cardinality(hist.written[d]) = NumThreads
                       /\ Len(file[d]) = NumThreads * LineLen

\* The place of call c in sequence s (0 when it is not in s).
Place(s, c) ==
    IF \E i \in 1 .. Len(s) : s[i] = c
    THEN CHOOSE i \in 1 .. Len(s) : s[i] = c
    ELSE 0

\* C5 as stated: within one domain the lines are in the file in the order in
\* which the write_domain_log calls were invoked (calls are numbered in the
\* order of their invocation).
InvocationOrder ==
    \A d \in Keys :
        \A i, j \in 1 .. Len(LinesOf(d)) :
            i < j => LinesOf(d)[i] < LinesOf(d)[j]

\* C5 as amended: within one domain the lines are in the file in the order in
\* which their callers acquired the entry's lock, whatever the order in which
\* the calls were invoked.
LockOrder ==
    \A d \in Keys :
        LET L == LinesOf(d)
            K == hist.lockorder[d]
        IN  /\ \A i \in 1 .. Len(L) : Place(K, L[i]) > 0
            /\ \A i, j \in 1 .. Len(L) :
                   i < j => Place(K, L[i]) < Place(K, L[j])

\* The call invoked second took the entry's lock first, and its line is the
\* first of the two in the file.
LockOrderWitness ==
    \E d \in Keys : /\ Len(LinesOf(d)) = 2
                    /\ LinesOf(d)[1] > LinesOf(d)[2]
                    /\ hist.lockorder[d] = LinesOf(d)

\* The line of call c is in the file of d, whole.
LineInFile(d, c) ==
    \E i \in 1 .. Len(file[d]) :
        /\ i + LineLen - 1 <= Len(file[d])
        /\ \A o \in 1 .. LineLen : file[d][i + o - 1] = <<c, o>>

\* Thread t found no handle or saw its first write fail.
Failed(t) == th[t].absent \/ th[t].first = "fail"

\* C6: single-retry self-healing.  A write_domain_log call reopens the file
\* at most once and attempts the write at most twice.  When the handle is
\* absent or the first write fails, then before the call unlocks the entry it
\* has reopened exactly once (every handle it replaced is closed) and, when
\* the reopen succeeded, retried exactly once; when reopen and retry
\* succeeded, the line is in the file, the handle is open and the status is
\* SUCCESS.
SingleRetry ==
    /\ leaked = 0
    /\ \A t \in Threads :
        /\ th[t].nopen <= 1
        /\ th[t].nwrite <= 2
        /\ th[t].pc = "w_unlock" /\ ~Failed(t) =>
             th[t].nopen = 0 /\ th[t].nwrite = 1
        /\ th[t].pc = "w_unlock" /\ Failed(t) =>
             /\ th[t].nopen = 1
             /\ th[t].nwrite = (IF th[t].absent THEN 0 ELSE 1)
                               + (IF th[t].reopen = "ok" THEN 1 ELSE 0)
             /\ th[t].reopen = "ok" /\ th[t].retry = "ok" =>
                  /\ th[t].status = "SUCCESS"
                  /\ LineInFile(th[t].domain, th[t].call)
                  /\ entries[th[t].entry].log_file = "open"

\* The first write of a call failed on an open handle, the reopen and the
\* retry succeeded, and the call is about to unlock and return.
SingleRetryWitness ==
    \E t \in Threads :
        /\ th[t].pc = "w_unlock"
        /\ th[t].first = "fail"
        /\ th[t].reopen = "ok" /\ th[t].retry = "ok"
        /\ th[t].status = "SUCCESS"

\* C7 as stated: write_domain_log returns failure whenever the reopen or the
\* retried write failed, and SUCCESS only if a write attempt of the line
\* succeeded.
FailureReported ==
    \A t \in Threads :
        th[t].pc = "w_unlock" =>
            /\ th[t].reopen = "fail" \/ th[t].retry = "fail" =>
                 th[t].status = "FALSE"
            /\ th[t].status = "SUCCESS" => th[t].wrote

\* mod_logfile_domain_shutdown returns in this step.
ShutdownReturns == sd.pc = "destroy" /\ sd'.pc = "done"

\* C8: shutdown drains every handle.  When shutdown ran with no logger call
\* in flight (none was running when the logger was unbound, and none starts
\* until shutdown has returned), then at its return no file handle is open,
\* every entry's handle has been closed by close_all_domain_logs, and the cache
\* has been discarded.
ShutdownDrains ==
    [][ShutdownReturns /\ ~sd.inflight =>
           /\ open_files' = {}
           /\ leaked' = 0
           /\ \A e \in DOMAIN entries' : entries'[e].log_file = "NULL"
           /\ ~hash_live'
           /\ DOMAIN domain_hash' = {}
      ]_vars

\* Shutdown has returned, no call was in flight during it, and a cached entry
\* that had been written to has had its destructor run and its handle closed.
ShutdownDrainsWitness ==
    /\ sd.pc = "done"
    /\ ~sd.inflight
    /\ \A t \in Threads : th[t].pc = "idle"
    /\ \E e \in DOMAIN entries : /\ ~entries[e].lock_live
                                 /\ entries[e].log_size > 0
                                 /\ entries[e].log_file = "NULL"

\* C9 as stated: a write_domain_log / get_domain_entry call made after
\* shutdown has returned is rejected or does nothing: it does not access the
\* destroyed domain_hash, makes no entry and opens no file.
LateWritesHarmless ==
    /\ "late" \notin hist.nullhash
    /\ \A t \in Threads : th[t].late => th[t].entry = 0

\* A thread is in the lookup / creation section of get_domain_entry.
InLookup(t) == th[t].pc \in {"gde_find", "gde_open", "gde_insert"}

\* What can make thread t wait: another thread in the lookup / creation
\* section when t wants globals.mutex, or another thread in the write section
\* of the very entry t wants to lock.
MayWait(t) ==
    \/ /\ th[t].pc = "gde_lock"
       /\ \E u \in Threads \ {t} : InLookup(u)
    \/ /\ th[t].pc = "w_lock"
       /\ \E u \in Threads \ {t} : InWrite(u) /\ th[u].entry = th[t].entry

\* C10: writers to distinct domains do not block each other on file I/O.  A
\* thread that holds an entry (waiting for its lock or in its write section)
\* does not hold globals.mutex, and a call in progress can always take its
\* next step unless a thread is in the lookup / creation section or in the
\* write section of the same entry: a writer stalled in the write section of
\* another entry never stops it.
WritersIndependent ==
    \A t \in Threads :
        /\ HasEntry(t) => t \notin mutex
        /\ th[t].pc # "idle" /\ ~MayWait(t) => ENABLED Writer(t)

\* One thread is in the middle of writing a line to one cached domain, holding
\* that entry's lock, while another thread, for a different cached domain, is
\* at the lock of its entry and can take it.
WritersIndependentWitness ==
    \E t1, t2 \in Threads :
        /\ th[t1].pc = "w_write2" /\ th[t1].off < LineLen
        /\ entries[th[t1].entry].file_lock = {t1}
        /\ th[t2].pc = "w_lock"
        /\ th[t2].entry # th[t1].entry
        /\ th[t2].domain \in PreKeys
        /\ ENABLED w_lock(t2)

\* The logger callback on every kind of event, one event at a time; the
\* cache is not involved.
NextExtract ==
    \/ /\ \A u \in Threads : lg[u].pc = "idle"
       /\ \E t \in Threads, ev \in Events : logger_resolve(t, ev)
    \/ \E t \in Threads : logger_write(t)
    \/ \E t \in Threads : logger_return(t)
    \/ \E t \in Threads : logger_next(t)

SpecExtract == Init /\ [][NextExtract]_vars

\* The text of event ev holds the marker m.
HasMarker(ev, m) == strstr(ev.rendered, m) # 0

\* The run of non-whitespace characters after the first occurrence of marker
\* m in the text s, cut at DOMAINBUF_SIZE - 1 characters.
RunAfter(s, m) ==
    LET p == strstr(s, m) + Len(m)
        ends == {i \in p .. (Len(s) + 1) : i > Len(s) \/ isspace(s[i])}
        e == CHOOSE i \in ends : \A k \in ends : i <= k
        n == IF e - p < DOMAINBUF_SIZE THEN e - p ELSE DOMAINBUF_SIZE - 1
    IN  SubSeq(s, p, p + n - 1)

\* The sources of a domain, in the order of their priority, as the values
\* they offer: "" when the source is absent.
Offers(ev) ==
    << IF ev.channel /\ ~ev.domain_name.null THEN ev.domain_name.s ELSE << >>,
       IF ev.channel /\ ~ev.domain.null THEN ev.domain.s ELSE << >>,
       IF HasMarker(ev, DOMAIN_NAME_EQ)
       THEN RunAfter(ev.rendered, DOMAIN_NAME_EQ) ELSE << >>,
       IF HasMarker(ev, DOMAIN_EQ)
       THEN RunAfter(ev.rendered, DOMAIN_EQ) ELSE << >> >>

\* The first of the offers o that is not empty, NULL if all are empty.
FirstAvailable(o) ==
    LET av == {i \in 1 .. Len(o) : o[i] # << >>} IN
    IF av = {} THEN NullStr
    ELSE Ptr(o[CHOOSE i \in av : \A k \in av : i <= k])

\* C11 as stated: the domain of an event the logger resolves is the first
\* available (non-empty) of context domain_name, context domain, the text's
\* domain_name= value and the text's domain= value, none if there is none.
ResolutionPriority ==
    \A t \in Threads :
        lg[t].pc = "resolved" =>
            lg[t].domain = FirstAvailable(Offers(lg[t].ev))

\* C11: the same, except that the text's domain= value is an offer only when
\* the marker domain_name= does not occur in the text: a domain_name= marker
\* followed by an empty run gives no domain from the text.
ResolutionPriorityMarker ==
    \A t \in Threads :
        lg[t].pc = "resolved" =>
            LET ev == lg[t].ev
                o == Offers(ev)
            IN  lg[t].domain =
                  FirstAvailable(IF HasMarker(ev, DOMAIN_NAME_EQ)
                                 THEN SubSeq(o, 1, 3) ELSE o)

\* The context has no domain_name but a domain, the text holds both markers
\* and a domain= value, and the context's domain was resolved.
ResolutionWitness ==
    \E t \in Threads :
        /\ lg[t].pc = "resolved"
        /\ lg[t].ev.channel
        /\ LET o == Offers(lg[t].ev) IN
           /\ o[1] = << >> /\ o[2] # << >> /\ o[4] # << >>
           /\ HasMarker(lg[t].ev, DOMAIN_NAME_EQ)
           /\ lg[t].domain = Ptr(o[2])

\* isprint of <ctype.h> in the C locale.
isprint(c) == c \in 32 .. 126

\* The run of characters that are non-whitespace and printable after the
\* first occurrence of marker m in the text s, cut at DOMAINBUF_SIZE - 1.
PrintableRunAfter(s, m) ==
    LET p == strstr(s, m) + Len(m)
        ends == {i \in p .. (Len(s) + 1) :
                    i > Len(s) \/ isspace(s[i]) \/ ~isprint(s[i])}
        e == CHOOSE i \in ends : \A k \in ends : i <= k
        n == IF e - p < DOMAINBUF_SIZE THEN e - p ELSE DOMAINBUF_SIZE - 1
    IN  SubSeq(s, p, p + n - 1)

\* The logger of thread t has resolved the domain of an event from its text
\* alone: what it holds is the result of extract_domain_from_msg.
FromText(t) ==
    /\ lg[t].pc = "resolved"
    /\ ~lg[t].ev.channel
    /\ lg[t].ev.rendered # << >>

\* C12 as stated: extract_domain_from_msg returns the run of non-whitespace,
\* printable characters after the first occurrence of the marker
\* (domain_name=, or domain= when domain_name= does not occur), stopped at
\* the first whitespace or non-printable character or the end, capped at 127
\* characters; none when the run is empty or there is no marker.
TextExtraction ==
    \A t \in Threads :
        FromText(t) =>
            LET s == lg[t].ev.rendered
                m == IF strstr(s, DOMAIN_NAME_EQ) # 0 THEN DOMAIN_NAME_EQ
                     ELSE DOMAIN_EQ
                run == IF strstr(s, m) = 0 THEN << >>
                       ELSE PrintableRunAfter(s, m)
            IN  /\ lg[t].domain = (IF run = << >> THEN NullStr ELSE Ptr(run))
                /\ \A i \in 1 .. Len(lg[t].domain.s) :
                       /\ ~isspace(lg[t].domain.s[i])
                       /\ isprint(lg[t].domain.s[i])

\* C13 as stated: every domain key that reaches the cache, from a context
\* attribute or from the text, is at most 127 characters long: the key
\* get_domain_entry looks up and inserts, and the name kept in the entry.
KeyLengthBound ==
    \A t \in Threads :
        lg[t].pc = "keyed" =>
            /\ Len(lg[t].hash_key) <= DOMAINBUF_SIZE - 1
            /\ Len(lg[t].entry_domain) <= ENTRY_DOMAIN_SIZE - 1

\* The logger callback in front of the cache that starts full or one entry
\* short of full.
NextLogger ==
    \/ \E t \in Threads, ev \in SmallEvents : logger_call(t, ev)
    \/ \E t \in Threads : Writer(t)
    \/ \E t \in Threads : logger_return(t)
    \/ \E t \in Threads : logger_next(t)

SpecLogger == InitPreloaded /\ [][NextLogger]_vars

\* C14, first part: whatever write_domain_log did, the callback returns
\* SWITCH_STATUS_SUCCESS to the host.
LoggerReturnsSuccess ==
    \A t \in Threads : lg[t].pc = "returned" => lg[t].ret = "SUCCESS"

\* C14, second part: the callback on an event with no resolvable domain
\* returns success at once; it creates no entry and writes to no file.
NoDomainNoEffect ==
    \A t \in Threads :
        lg[t].pc = "idle" /\ lg'[t].pc # "idle"
            /\ zstr(logger_domain(lg'[t].ev)) =>
                /\ lg'[t].pc = "returned" /\ lg'[t].ret = "SUCCESS"
                /\ UNCHANGED <<domain_hash, cache_entries, entries, file, th,
                               invoked>>

\* C14: failures never reach the event source.
FailuresStayLocal == [](LoggerReturnsSuccess) /\ [][NoDomainNoEffect]_vars

\* The callback has returned success after write_domain_log failed.
FailuresStayLocalWitness ==
    \E t \in Threads :
        /\ lg[t].pc = "returned" /\ lg[t].ret = "SUCCESS"
        /\ ~zstr(lg[t].domain)
        /\ th[t].ret = "FALSE"

\* The entry locks owner o holds.
Held(o) == {e \in DOMAIN entries : o \in entries[e].file_lock}

\* A call or the shutdown is under way.
Busy ==
    \/ \E t \in Threads : th[t].pc # "idle"
    \/ sd.pc \in {"ca_lock", "ca_iter", "ca_close", "destroy"}

\* C15: lock ordering.  No owner holds two entry locks; a logger thread
\* never holds globals.mutex together with an entry lock; the shutdown
\* thread holds an entry lock only inside globals.mutex; and as long as the
\* process has not faulted, whenever a call or the shutdown is under way one
\* of them can take a step: no deadlock.
LockOrdering ==
    /\ \A o \in Threads \cup {SD} : Cardinality(Held(o)) <= 1
    /\ \A t \in Threads : t \in mutex => Held(t) = {}
    /\ Held(SD) # {} => SD \in mutex
    /\ ~crashed /\ Busy =>
          ENABLED ((\E t \in Threads : Writer(t))
                   \/ ca_lock \/ ca_iter \/ ca_close \/ hash_destroy)

\* The shutdown thread holds globals.mutex and one entry's lock while a
\* writer holds the lock of another entry, which the shutdown has yet to
\* visit.
LockOrderingWitness ==
    /\ sd.pc = "ca_close" /\ mutex = {SD} /\ Held(SD) = {sd.entry}
    /\ \E t \in Threads :
          /\ InWrite(t) /\ Held(t) = {th[t].entry}
          /\ th[t].entry # sd.entry
          /\ entries[th[t].entry].domain \in sd.hi

\* Owner o takes this step.
Actor(o) == IF o = SD THEN sd' # sd ELSE th'[o] # th[o]

\* C16 as stated: an entry's log_file and log_size are touched only under
\* the entry's own lock: a step that changes either of them is a step of the
\* thread that holds that entry's file_lock.
EntryStateUnderLock ==
    \A e \in DOMAIN entries :
        \/ /\ entries'[e].log_file = entries[e].log_file
           /\ entries'[e].log_size = entries[e].log_size
        \/ \E o \in entries[e].file_lock : Actor(o)

\* C16: the handle and the counter of every entry change under its lock.
EntryStateLocked == [][EntryStateUnderLock]_vars

\* The bytes of the file of entry e written after its most recent open by
\* calls whose write succeeded.
WrittenSinceOpen(e) ==
    LET d == entries[e].domain IN
    {i \in (entries[e].opened + 1) .. Len(file[d]) :
        file[d][i][1] \in hist.written[d]}

\* Whenever an entry's lock is free and its handle is open, log_size is the
\* size recorded at the most recent open plus the bytes written since.
Accounting ==
    \A e \in DOMAIN entries :
        entries[e].file_lock = {} /\ entries[e].log_file = "open" =>
            entries[e].log_size =
                entries[e].opened + Cardinality(WrittenSinceOpen(e))

\* A call that wrote nothing to the file leaves log_size as it was.
NoWriteNoCount ==
    \A t \in Threads :
        th[t].pc = "w_account" /\ th'[t].pc = "w_unlock" /\ ~th[t].wrote =>
            entries'[th[t].entry].log_size = entries[th[t].entry].log_size

\* C17: writtenBytes accounting.
BytesAccounting == [](Accounting) /\ [][NoWriteNoCount]_vars

\* An entry was reopened on a file that was not empty and a line was written
\* through the new handle; its lock is free again.
BytesAccountingWitness ==
    \E e \in DOMAIN entries :
        /\ entries[e].file_lock = {} /\ entries[e].log_file = "open"
        /\ entries[e].opened > 0
        /\ entries[e].log_size > entries[e].opened

\* The open of the new entry fails in this step of thread t.
OpenFails(t) == th[t].pc = "gde_open" /\ th'[t].pc = "idle"

\* The step in which the open of a new entry fails returns Rejected (NULL,
\* so write_domain_log returns FALSE) with globals.mutex released, leaves the
\* mapping and the entry counter as they were, and leaves the domain
\* uncached, so that the next lookup of it misses and creates again.
OpenFailureStep ==
    \A t \in Threads :
        OpenFails(t) =>
            /\ th'[t].ret = "FALSE" /\ th'[t].why = "open"
            /\ t \notin mutex'
            /\ domain_hash' = domain_hash
            /\ cache_entries' = cache_entries
            /\ th[t].domain \notin DOMAIN domain_hash'

\* C18: open failure on creation aborts admission.
OpenFailureAborts == [][OpenFailureStep]_vars

\* After a failed creation for a domain (its entry is left unused, outside
\* the mapping) a later call for the same domain is creating an entry again.
OpenFailureAbortsWitness ==
    \E u \in Threads, e \in DOMAIN entries :
        /\ th[u].pc = "gde_open"
        /\ e # th[u].entry
        /\ entries[e].domain = th[u].domain
        /\ entries[e].log_file = "NULL"
        /\ \A k \in DOMAIN domain_hash : domain_hash[k] # e
        /\ \A t \in Threads : th[t].entry # e

\* The module from load to the end of shutdown: calls start only while the
\* logger is bound, and may still be running while shutdown executes.
NextInFlight ==
    \/ \E t \in Threads, d \in Keys : Call(t, d)
    \/ \E t \in Threads : Writer(t)
    \/ Shutdown

SpecInFlight == Init /\ [][NextInFlight]_vars

\* C19 as stated: a logger call that entered before the sink was
\* unregistered and is still running while shutdown executes never uses the
\* cache mapping after shutdown has discarded it, never locks or uses an
\* entry whose lock has been destroyed, and leaves no file handle open once
\* shutdown has returned and the call is over.
InFlightSafe ==
    /\ hist.nullhash = {}
    /\ ~crashed
    /\ \A t \in Threads : InWrite(t) => entries[th[t].entry].lock_live
    /\ sd.pc = "done" /\ (\A t \in Threads : th[t].pc = "idle") =>
          open_files = {} /\ leaked = 0

\* The loaded module serving the logger from a cache that is full or one
\* entry short of full, with fair scheduling: a thread that can take a step
\* takes one, and a thread that waits for a mutex gets it if the mutex is
\* free again and again.
SpecLive ==
    /\ InitPreloaded
    /\ [][NextFull]_vars
    /\ \A t \in Threads :
          /\ WF_vars(Writer(t))
          /\ SF_vars(gde_lock(t))
          /\ SF_vars(w_lock(t))

\* A thread that is not inside a call holds neither globals.mutex nor an
\* entry lock.
ReturnedHoldsNothing ==
    \A t \in Threads : th[t].pc = "idle" => t \notin mutex /\ Held(t) = {}

\* C20: every call completes and releases its locks.  Under fair scheduling
\* every write_domain_log / get_domain_entry call eventually returns, and
\* after every return the thread holds no lock.
CallsComplete ==
    /\ [](ReturnedHoldsNothing)
    /\ \A t \in Threads : (th[t].pc # "idle") ~> (th[t].pc = "idle")

\* All the calls have been made and have returned, one of them rejected
\* because the cache was full and one after its write section; no lock is
\* held.
CallsCompleteWitness ==
    /\ invoked = MaxCalls
    /\ \A t \in Threads : th[t].pc = "idle"
    /\ \E t, u \in Threads : th[t].why = "full" /\ th[u].why = "written"
    /\ mutex = {}
    /\ \A e \in DOMAIN entries : entries[e].file_lock = {}
====
